---- MODULE Spec2Model ----
(***************************************************************************)
(* Nomadix dashboard (src/src/app.py): the tourism metrics aggregation and *)
(* insight engine of main(), lines 128-314.  One rendering pass is a       *)
(* straight-line script: province filter, period filter, KPI cards, chart  *)
(* aggregations, three insight boxes.  A pandas exception ends the pass.   *)
(*                                                                         *)
(* A DataFrame is a sequence of rows [data, provincia, visitantes,         *)
(* estadia_media, satisfacao].  A date is a month-end Timestamp, kept as   *)
(* [y, m]; Day(d) is its day number, so that timedelta arithmetic and      *)
(* comparisons are those of the calendar.  Floating-point results are      *)
(* kept as exact fractions num/den plus the IEEE specials nan and inf.     *)
(* estadia_media and satisfacao are in tenths (45 is 4.5).  The receita    *)
(* column (lines 165-172, 244) repeats the visitantes computations and is  *)
(* left out.                                                               *)
(***************************************************************************)
EXTENDS Integers, Sequences, FiniteSets, TLC

VARIABLES store, periodo, provincias_selecionadas, df, df_filtrado,
          total_visitantes, delta_visitantes, estadia_media, satisfacao_media,
          df_mensal, df_provincia, df_sazonal, insights, pc, error

vars == <<store, periodo, provincias_selecionadas, df, df_filtrado,
          total_visitantes, delta_visitantes, estadia_media, satisfacao_media,
          df_mensal, df_provincia, df_sazonal, insights, pc, error>>

----------------------------------------------------------------------------
(* Bounds and input domains *)

\* Largest number of rows of a bounded store.
MaxRecords == 4

\* The provinces of the bounded stores and of the multiselect, in the order
\* the generator and the widget list them (Luanda first).
ProvinciasOrdem == <<"Luanda", "Benguela">>

Provincias == {ProvinciasOrdem[i] : i \in 1..Len(ProvinciasOrdem)}

\* Month-end dates of the bounded stores, chosen around the three cut-offs
\* taken from 2024-12-31 (2024-07-04, 2024-01-01, 2023-01-01).
Datas == {[y |-> 2022, m |-> 12], [y |-> 2023, m |-> 12],
          [y |-> 2024, m |-> 6], [y |-> 2024, m |-> 12]}

VisitantesDom == {0, 10}

EstadiaDom == {30}

SatisfacaoDom == {45}

\* The selectbox options of line 110 (accents dropped).
Periodos == {"Ultimos 6 meses", "Ultimo ano", "Ultimos 2 anos", "Todos os dados"}

\* timedelta(days=...) of lines 139, 141, 143.
Dias6Meses == 180

DiasAno == 365

Dias2Anos == 730

\* head(3) / tail(3) of lines 156-157.
JanelaTendencia == 3

meses == <<"Jan", "Fev", "Mar", "Abr", "Mai", "Jun",
           "Jul", "Ago", "Set", "Out", "Nov", "Dez">>

----------------------------------------------------------------------------
(* Calendar *)

IsLeap(y) == (y % 4 = 0 /\ y % 100 # 0) \/ y % 400 = 0

DaysInMonth(y, m) ==
    IF m = 2 THEN (IF IsLeap(y) THEN 29 ELSE 28)
    ELSE IF m \in {4, 6, 9, 11} THEN 30 ELSE 31

\* Day number (Julian day number) of the civil date y-m-d.
CivilDay(y, m, d) ==
    LET a  == (14 - m) \div 12
        yy == y + 4800 - a
        mm == m + 12 * a - 3
    IN  d + ((153 * mm + 2) \div 5) + 365 * yy + (yy \div 4) - (yy \div 100)
          + (yy \div 400) - 32045

\* Day number of a month-end Timestamp (pd.date_range(..., freq='M')).
Day(d) == CivilDay(d.y, d.m, DaysInMonth(d.y, d.m))

----------------------------------------------------------------------------
(* Floating-point values: a fraction num/den (den > 0), nan or inf *)

NaN == [kind |-> "nan", num |-> 0, den |-> 1]

Inf == [kind |-> "inf", num |-> 1, den |-> 1]

Num(n, d) == [kind |-> "num", num |-> n, den |-> d]

\* a / b on numpy float64 scalars: 0/0 and nan give nan, x/0 gives inf.
FloatDiv(a, b) ==
    IF a.kind = "nan" \/ b.kind = "nan" THEN NaN
    ELSE IF a.kind = "inf" \/ b.kind = "inf" THEN NaN
    ELSE IF b.num = 0 THEN (IF a.num = 0 THEN NaN ELSE Inf)
    ELSE Num(a.num * b.den, a.den * b.num)

\* (x - 1) * 100
MenosUmVezes100(x) ==
    IF x.kind = "num" THEN Num(100 * (x.num - x.den), x.den) ELSE x

\* x >= 0 in place of x > 0.
MaiorQueZero_OuIgual(x) ==
    IF x.kind = "nan" THEN FALSE
    ELSE IF x.kind = "inf" THEN TRUE
    ELSE x.num >= 0

\* x > 0 in Python: False for nan, True for +inf.
MaiorQueZero(x) ==
    IF x.kind = "nan" THEN FALSE
    ELSE IF x.kind = "inf" THEN TRUE
    ELSE x.num > 0

\* abs(x)
Abs(x) ==
    IF x.kind = "num" /\ x.num < 0 THEN Num(0 - x.num, x.den) ELSE x

\* a > b on two fractions.
FracGreater(a, b) == a.num * b.den > b.num * a.den

FracEqual(a, b) == a.num * b.den = b.num * a.den

----------------------------------------------------------------------------
(* Series helpers *)

RECURSIVE SumSeq(_)
SumSeq(s) == IF s = <<>> THEN 0 ELSE Head(s) + SumSeq(Tail(s))

\* Series.sum(): 0 on an empty series.
ColumnSum(rows) == SumSeq([i \in 1..Len(rows) |-> rows[i].visitantes])

\* Series.mean(): nan on an empty series.
SeriesMean(xs) == IF xs = <<>> THEN NaN ELSE Num(SumSeq(xs), Len(xs))

\* Series.head(n)
HeadN(xs, n) == SubSeq(xs, 1, IF Len(xs) < n THEN Len(xs) ELSE n)

\* Series.tail(n)
TailN(xs, n) == SubSeq(xs, IF Len(xs) < n THEN 1 ELSE Len(xs) - n + 1, Len(xs))

Visitantes(rows) == [i \in 1..Len(rows) |-> rows[i].visitantes]

----------------------------------------------------------------------------
(* Ordering helpers *)

\* Position of a province in the generator's and the widget's list.
OrdemIdx(p) == CHOOSE i \in 1..Len(ProvinciasOrdem) : ProvinciasOrdem[i] = p

\* Python's str order on the province names, as groupby's sorted keys use it.
LexOrdem == <<"Benguela", "Luanda">>

LexRank(p) == CHOOSE i \in 1..Len(LexOrdem) : LexOrdem[i] = p

\* A finite set of integers as an ascending sequence.
RECURSIVE SortInts(_)
SortInts(S) ==
    IF S = {} THEN <<>>
    ELSE LET x == CHOOSE a \in S : \A b \in S : a <= b
         IN  <<x>> \o SortInts(S \ {x})

\* A finite set of province names as a sequence in str order.
RECURSIVE SortProvincias(_)
SortProvincias(S) ==
    IF S = {} THEN <<>>
    ELSE LET x == CHOOSE a \in S : \A b \in S : LexRank(a) <= LexRank(b)
         IN  <<x>> \o SortProvincias(S \ {x})

\* The distinct values of a column in order of first occurrence.
RECURSIVE FirstOccurrence(_)
FirstOccurrence(ks) ==
    IF ks = <<>> THEN <<>>
    ELSE LET rest == FirstOccurrence(SubSeq(ks, 1, Len(ks) - 1))
             k    == ks[Len(ks)]
         IN  IF \E i \in 1..Len(rest) : rest[i] = k THEN rest
             ELSE Append(rest, k)

----------------------------------------------------------------------------
(* Filters *)

\* df[df['provincia'].isin(provincias_selecionadas)]
IsIn(rows, sel) == SelectSeq(rows, LAMBDA r : r.provincia \in sel)

\* The filter applied whatever the selection (the guard of line 133 dropped).
ProvinceFilter_NoGuard(rows, sel) == IsIn(rows, sel)

\* Lines 133-134: the filter is applied only to a non-empty selection.
ProvinceFilter(rows, sel) == IF sel # {} THEN IsIn(rows, sel) ELSE rows

\* df['data'].max() / .min() as day numbers (rows non-empty).
MaxDay(rows) ==
    CHOOSE d \in {Day(rows[i].data) : i \in 1..Len(rows)} :
        \A i \in 1..Len(rows) : Day(rows[i].data) <= d

MinDay(rows) ==
    CHOOSE d \in {Day(rows[i].data) : i \in 1..Len(rows)} :
        \A i \in 1..Len(rows) : d <= Day(rows[i].data)

\* The window start with the final else taken as the widest bounded window.
DataInicio_NoAll(rows, per) ==
    LET hoje == MaxDay(rows)
    IN  IF per = "Ultimos 6 meses" THEN hoje - Dias6Meses
        ELSE IF per = "Ultimo ano" THEN hoje - DiasAno
        ELSE hoje - Dias2Anos

\* Lines 137-145: the start of the window, from the frame it is given.
DataInicio(rows, per) ==
    LET hoje == MaxDay(rows)
    IN  IF per = "Ultimos 6 meses" THEN hoje - Dias6Meses
        ELSE IF per = "Ultimo ano" THEN hoje - DiasAno
        ELSE IF per = "Ultimos 2 anos" THEN hoje - Dias2Anos
        ELSE MinDay(rows)

\* Lines 137-147.  On a frame with no rows hoje is NaT and the mask is empty.
PeriodFilter(rows, per) ==
    IF rows = <<>> THEN <<>>
    ELSE LET inicio == DataInicio(rows, per)
         IN  SelectSeq(rows, LAMBDA r : Day(r.data) >= inicio)

----------------------------------------------------------------------------
(* Aggregations *)

\* groupby('provincia') with sort=False: groups in order of first occurrence.
ChavesProvincia_FirstOccurrence(rows) ==
    FirstOccurrence([i \in 1..Len(rows) |-> rows[i].provincia])

\* groupby('provincia') lists its groups by ascending key (sort=True is the
\* default): one group per province present.
ChavesProvincia(rows) ==
    SortProvincias({rows[i].provincia : i \in 1..Len(rows)})

\* groupby('data'): one group per date present, ascending.
ChavesData(rows) == SortInts({Day(rows[i].data) : i \in 1..Len(rows)})

\* groupby('mes'): one group per month of the year present, ascending.
ChavesMes(rows) == SortInts({rows[i].data.m : i \in 1..Len(rows)})

\* The by-province frame taking each group's first row instead of its sum.
PorProvincia_First(rows) ==
    LET ks == ChavesProvincia(rows)
    IN  [i \in 1..Len(ks) |->
            [key |-> ks[i],
             visitantes |->
                 Head(SelectSeq(rows, LAMBDA r : r.provincia = ks[i])).visitantes]]

\* Line 289 (and 218): df_filtrado.groupby('provincia')['visitantes'].sum()
PorProvincia(rows) ==
    LET ks == ChavesProvincia(rows)
    IN  [i \in 1..Len(ks) |->
            [key |-> ks[i],
             visitantes |->
                 ColumnSum(SelectSeq(rows, LAMBDA r : r.provincia = ks[i]))]]

\* Line 199: df_filtrado.groupby('data')['visitantes'].sum()
PorData(rows) ==
    LET ks == ChavesData(rows)
    IN  [i \in 1..Len(ks) |->
            [key |-> ks[i],
             visitantes |->
                 ColumnSum(SelectSeq(rows, LAMBDA r : Day(r.data) = ks[i]))]]

\* Lines 258-260: groupby('mes')['visitantes'].mean(), mes = data.dt.month.
PorMes(rows) ==
    LET ks == ChavesMes(rows)
    IN  [i \in 1..Len(ks) |->
            [key |-> ks[i],
             visitantes |->
                 SeriesMean(Visitantes(
                     SelectSeq(rows, LAMBDA r : r.data.m = ks[i])))]]

\* Series.idxmax() on integers: the position of the first maximum.
IdxMax(s) ==
    CHOOSE i \in 1..Len(s) :
        /\ \A j \in 1..Len(s) : s[j].visitantes <= s[i].visitantes
        /\ \A j \in 1..(i - 1) : s[j].visitantes < s[i].visitantes

\* Series.idxmax() on means: the position of the first maximum.
IdxMaxMean(s) ==
    CHOOSE i \in 1..Len(s) :
        /\ \A j \in 1..Len(s) : ~FracGreater(s[j].visitantes, s[i].visitantes)
        /\ \A j \in 1..(i - 1) : FracGreater(s[i].visitantes, s[j].visitantes)

\* Line 219: sort_values('visitantes', ascending=False), ties in their order.
RECURSIVE SortDesc(_)
SortDesc(s) ==
    IF s = <<>> THEN <<>>
    ELSE LET i == IdxMax(s)
         IN  <<s[i]>> \o SortDesc(SubSeq(s, 1, i - 1) \o SubSeq(s, i + 1, Len(s)))

\* The trend taken over the per-date totals instead of the rows.
TrendDelta_PorData(rows) ==
    LET xs == Visitantes(PorData(rows))
    IN  MenosUmVezes100(FloatDiv(SeriesMean(TailN(xs, JanelaTendencia)),
                                 SeriesMean(HeadN(xs, JanelaTendencia))))

\* Lines 156-157: ((tail(3).mean() / head(3).mean()) - 1) * 100 on the rows.
TrendDelta(rows) ==
    LET xs == Visitantes(rows)
    IN  MenosUmVezes100(FloatDiv(SeriesMean(TailN(xs, JanelaTendencia)),
                                 SeriesMean(HeadN(xs, JanelaTendencia))))

----------------------------------------------------------------------------
(* The record store *)

Row(d, p, v, e, sa) ==
    [data |-> d, provincia |-> p, visitantes |-> v, estadia_media |-> e,
     satisfacao |-> sa]

\* One (date, province) cell holds at most one row; the generator appends
\* dates in ascending order and, within a date, provinces in list order.
Cells == Datas \X Provincias

CellRank(c) == Day(c[1]) * 10 + OrdemIdx(c[2])

RECURSIVE SortCells(_)
SortCells(S) ==
    IF S = {} THEN <<>>
    ELSE LET x == CHOOSE a \in S : \A b \in S : CellRank(a) <= CellRank(b)
         IN  <<x>> \o SortCells(S \ {x})

\* The stores of at most MaxRecords rows, in the generator's row order.  The
\* store is the engine's input: a feed may miss cells, or hold no row at all.
\* (load_sample_data itself reads a global np that main imports only as a
\* local, line 129; the engine is modelled on the frame it is handed.)
BoundedStores ==
    UNION {
        LET cs == SortCells(S)
        IN  {[i \in 1..Len(cs) |-> Row(cs[i][1], cs[i][2], v[i], e[i], sa[i])] :
                v \in [1..Len(cs) -> VisitantesDom],
                e \in [1..Len(cs) -> EstadiaDom],
                sa \in [1..Len(cs) -> SatisfacaoDom]}
        : S \in {T \in SUBSET Cells : Cardinality(T) <= MaxRecords}}

\* Provinces A and B over three consecutive months, A = 100, 110, 120 and
\* B = 50, 40, 30, rows by date and A before B within a date.
ScenarioA == "Luanda"

ScenarioB == "Benguela"

ScenarioStore ==
    <<Row([y |-> 2024, m |-> 10], ScenarioA, 100, 30, 45),
      Row([y |-> 2024, m |-> 10], ScenarioB, 50, 30, 45),
      Row([y |-> 2024, m |-> 11], ScenarioA, 110, 30, 45),
      Row([y |-> 2024, m |-> 11], ScenarioB, 40, 30, 45),
      Row([y |-> 2024, m |-> 12], ScenarioA, 120, 30, 45),
      Row([y |-> 2024, m |-> 12], ScenarioB, 30, 30, 45)>>

Stores == BoundedStores \cup {ScenarioStore}

----------------------------------------------------------------------------
(* One rendering pass *)

Init ==
    /\ store \in Stores
    /\ periodo \in Periodos
    /\ provincias_selecionadas \in SUBSET Provincias
    /\ df = store
    /\ df_filtrado = <<>>
    /\ total_visitantes = 0
    /\ delta_visitantes = NaN
    /\ estadia_media = NaN
    /\ satisfacao_media = NaN
    /\ df_mensal = <<>>
    /\ df_provincia = <<>>
    /\ df_sazonal = <<>>
    /\ insights = <<>>
    /\ pc = "filtros"
    /\ error = "none"

\* A DataFrame built from an empty list of rows has no columns: df['x'] raises.
SemColunas == store = <<>>

Raise(e) ==
    /\ pc' = "crashed"
    /\ error' = e

\* Lines 132-134.
AplicaFiltros ==
    /\ pc = "filtros"
    /\ IF provincias_selecionadas # {} /\ SemColunas
       THEN /\ Raise("KeyError")
            /\ UNCHANGED df
       ELSE /\ df' = ProvinceFilter(df, provincias_selecionadas)
            /\ pc' = "periodo"
            /\ UNCHANGED error
    /\ UNCHANGED <<store, periodo, provincias_selecionadas, df_filtrado,
                   total_visitantes, delta_visitantes, estadia_media,
                   satisfacao_media, df_mensal, df_provincia, df_sazonal,
                   insights>>

\* The period filter with hoje taken from the unfiltered store.
FiltraPorPeriodo_HojeDoStore ==
    /\ pc = "periodo"
    /\ IF SemColunas
       THEN /\ Raise("KeyError")
            /\ UNCHANGED df_filtrado
       ELSE /\ df_filtrado' =
                 (IF periodo = "Todos os dados" THEN df
                  ELSE LET inicio == DataInicio(store, periodo)
                       IN  SelectSeq(df, LAMBDA r : Day(r.data) >= inicio))
            /\ pc' = "kpis"
            /\ UNCHANGED error
    /\ UNCHANGED <<store, periodo, provincias_selecionadas, df,
                   total_visitantes, delta_visitantes, estadia_media,
                   satisfacao_media, df_mensal, df_provincia, df_sazonal,
                   insights>>

\* Lines 136-147.
FiltraPorPeriodo ==
    /\ pc = "periodo"
    /\ IF SemColunas
       THEN /\ Raise("KeyError")
            /\ UNCHANGED df_filtrado
       ELSE /\ df_filtrado' = PeriodFilter(df, periodo)
            /\ pc' = "kpis"
            /\ UNCHANGED error
    /\ UNCHANGED <<store, periodo, provincias_selecionadas, df,
                   total_visitantes, delta_visitantes, estadia_media,
                   satisfacao_media, df_mensal, df_provincia, df_sazonal,
                   insights>>

\* Lines 149-188: the four KPI cards.
IndicadoresPrincipais ==
    /\ pc = "kpis"
    /\ total_visitantes' = ColumnSum(df_filtrado)
    /\ delta_visitantes' = TrendDelta(df_filtrado)
    /\ estadia_media' =
         SeriesMean([i \in 1..Len(df_filtrado) |-> df_filtrado[i].estadia_media])
    /\ satisfacao_media' =
         SeriesMean([i \in 1..Len(df_filtrado) |-> df_filtrado[i].satisfacao])
    /\ pc' = "graficos"
    /\ UNCHANGED <<store, periodo, provincias_selecionadas, df, df_filtrado,
                   df_mensal, df_provincia, df_sazonal, insights, error>>

\* Lines 192-279: the frames behind the four charts.
GraficosPrincipais ==
    /\ pc = "graficos"
    /\ df_mensal' = PorData(df_filtrado)
    /\ df_provincia' = SortDesc(PorProvincia(df_filtrado))
    /\ df_sazonal' =
         LET s == PorMes(df_filtrado)
         IN  [i \in 1..Len(s) |->
                [mes |-> s[i].key, visitantes |-> s[i].visitantes,
                 mes_nome |-> meses[s[i].key]]]
    /\ pc' = "insight_destino"
    /\ UNCHANGED <<store, periodo, provincias_selecionadas, df, df_filtrado,
                   total_visitantes, delta_visitantes, estadia_media,
                   satisfacao_media, insights, error>>

\* Lines 288-295: idxmax of an empty series raises ValueError.
InsightDestino ==
    /\ pc = "insight_destino"
    /\ LET s == PorProvincia(df_filtrado)
       IN  IF s = <<>>
           THEN /\ Raise("ValueError")
                /\ UNCHANGED insights
           ELSE /\ insights' = Append(insights,
                      [tag |-> "TopDestination", texto |-> s[IdxMax(s)].key,
                       valor |-> NaN])
                /\ pc' = "insight_tendencia"
                /\ UNCHANGED error
    /\ UNCHANGED <<store, periodo, provincias_selecionadas, df, df_filtrado,
                   total_visitantes, delta_visitantes, estadia_media,
                   satisfacao_media, df_mensal, df_provincia, df_sazonal>>

\* The trend box put in front of the boxes already emitted.
InsightTendencia_Prepend ==
    /\ pc = "insight_tendencia"
    /\ LET crescimento == delta_visitantes
           trend == IF MaiorQueZero(crescimento) THEN "crescimento"
                    ELSE "decrescimento"
       IN  insights' =
               <<[tag |-> "Trend", texto |-> trend, valor |-> Abs(crescimento)]>>
                   \o insights
    /\ pc' = "insight_epoca"
    /\ UNCHANGED <<store, periodo, provincias_selecionadas, df, df_filtrado,
                   total_visitantes, delta_visitantes, estadia_media,
                   satisfacao_media, df_mensal, df_provincia, df_sazonal, error>>

\* Lines 297-305.
InsightTendencia ==
    /\ pc = "insight_tendencia"
    /\ LET crescimento == delta_visitantes
           trend == IF MaiorQueZero(crescimento) THEN "crescimento"
                    ELSE "decrescimento"
       IN  insights' = Append(insights,
               [tag |-> "Trend", texto |-> trend, valor |-> Abs(crescimento)])
    /\ pc' = "insight_epoca"
    /\ UNCHANGED <<store, periodo, provincias_selecionadas, df, df_filtrado,
                   total_visitantes, delta_visitantes, estadia_media,
                   satisfacao_media, df_mensal, df_provincia, df_sazonal, error>>

\* Lines 307-314.
InsightEpoca ==
    /\ pc = "insight_epoca"
    /\ IF df_sazonal = <<>>
       THEN /\ Raise("ValueError")
            /\ UNCHANGED insights
       ELSE /\ insights' = Append(insights,
                  [tag |-> "PeakSeason",
                   texto |-> df_sazonal[IdxMaxMean(df_sazonal)].mes_nome,
                   valor |-> NaN])
            /\ pc' = "done"
            /\ UNCHANGED error
    /\ UNCHANGED <<store, periodo, provincias_selecionadas, df, df_filtrado,
                   total_visitantes, delta_visitantes, estadia_media,
                   satisfacao_media, df_mensal, df_provincia, df_sazonal>>

Next ==
    \/ AplicaFiltros
    \/ FiltraPorPeriodo
    \/ IndicadoresPrincipais
    \/ GraficosPrincipais
    \/ InsightDestino
    \/ InsightTendencia
    \/ InsightEpoca

Spec == Init /\ [][Next]_vars

----------------------------------------------------------------------------
(* Stages reached *)

\* The KPI cards have been computed (a ValueError is raised only after them).
KpisFeitos ==
    \/ pc \in {"graficos", "insight_destino", "insight_tendencia",
               "insight_epoca", "done"}
    \/ (pc = "crashed" /\ error = "ValueError")

\* The chart frames have been computed.
GraficosFeitos ==
    \/ pc \in {"insight_destino", "insight_tendencia", "insight_epoca", "done"}
    \/ (pc = "crashed" /\ error = "ValueError")

\* df_filtrado holds the period filter's result.
PeriodoFiltrado == pc = "kpis" \/ KpisFeitos

\* df holds the province filter's result.
FiltrosFeitos == pc = "periodo" \/ PeriodoFiltrado

HasInsight(t) == \E i \in 1..Len(insights) : insights[i].tag = t

InsightOf(t) == insights[CHOOSE i \in 1..Len(insights) : insights[i].tag = t]

----------------------------------------------------------------------------
(* C1: the province filter *)

PositionIn(rows, r) == CHOOSE i \in 1..Len(rows) : rows[i] = r

\* out holds exactly the rows of in whose province is in sel, in in's order.
ExactlySelected(out, in, sel) ==
    /\ \A i \in 1..Len(out) :
          out[i].provincia \in sel /\ (\E j \in 1..Len(in) : in[j] = out[i])
    /\ \A j \in 1..Len(in) :
          in[j].provincia \in sel => \E i \in 1..Len(out) : out[i] = in[j]
    /\ \A i1, i2 \in 1..Len(out) :
          i1 < i2 => PositionIn(in, out[i1]) < PositionIn(in, out[i2])

----------------------------------------------------------------------------
(* C2: the reference date of the period window *)

Janela(per) ==
    IF per = "Ultimos 6 meses" THEN Dias6Meses
    ELSE IF per = "Ultimo ano" THEN DiasAno
    ELSE Dias2Anos

\* C2 as stated: for a bounded period the rows kept are exactly those dated
\* on or after D - window, D being the latest date of the unfiltered store,
\* whatever the province selection.
C2_CutoffFromFullStore ==
    (PeriodoFiltrado /\ periodo # "Todos os dados" /\ store # <<>>) =>
        df_filtrado =
            SelectSeq(df, LAMBDA r :
                Day(r.data) >= MaxDay(store) - Janela(periodo))

----------------------------------------------------------------------------
(* C3: the two-province scenario *)

ByProvinceMap == {<<df_provincia[i].key, df_provincia[i].visitantes>> :
                     i \in 1..Len(df_provincia)}

\* The scenario store with both provinces passing, at the end of the pass.
ScenarioDone ==
    /\ store = ScenarioStore
    /\ provincias_selecionadas \in {{}, {ScenarioA, ScenarioB}}
    /\ pc = "done"

----------------------------------------------------------------------------
(* C4: the sign of the trend *)

\* The chronologically ordered per-period visitor totals.
TotaisPorPeriodo == [i \in 1..Len(df_mensal) |-> df_mensal[i].visitantes]

StrictlyIncreasing(xs) == \A i \in 1..(Len(xs) - 1) : xs[i] < xs[i + 1]

Constant(xs) == \A i, j \in 1..Len(xs) : xs[i] = xs[j]

\* C4 as stated: delta_percent is 0 when the per-period totals are constant
\* and > 0 when they are strictly increasing, whatever the number of
\* provinces.  Stated where the formula itself gives that sign: totals that
\* are not zero, and for the increasing half at least 4 periods (with fewer,
\* the first 3 and last 3 periods are the same periods).
C4_TrendSignOverPeriods ==
    (GraficosFeitos /\ df_mensal # <<>> /\ TotaisPorPeriodo[1] > 0) =>
        /\ Constant(TotaisPorPeriodo) =>
              (delta_visitantes.kind = "num" /\ delta_visitantes.num = 0)
        /\ (Len(df_mensal) >= 4 /\ StrictlyIncreasing(TotaisPorPeriodo)) =>
              MaiorQueZero(delta_visitantes)

----------------------------------------------------------------------------
(* C5: the undefined trend *)

HeadMeanZero ==
    SumSeq(HeadN(Visitantes(df_filtrado), JanelaTendencia)) = 0

\* C5 as stated: when the series is empty or its head-window mean is zero,
\* delta_percent is an explicit undefined result, neither nan nor inf, and
\* no Trend insight is emitted.
C5_UndefinedTrendOmitted ==
    (KpisFeitos /\ (df_filtrado = <<>> \/ HeadMeanZero)) =>
        /\ delta_visitantes.kind \notin {"nan", "inf", "num"}
        /\ ~HasInsight("Trend")

----------------------------------------------------------------------------
(* C6: insights over an empty record set *)

\* C6 as stated: when the filtered record set is empty, the pass ends
\* without raising and with an empty insight sequence.
C6_EmptyInsightsNoRaise ==
    (pc \in {"done", "crashed"} /\ PeriodoFiltrado /\ df_filtrado = <<>>) =>
        (pc = "done" /\ insights = <<>>)

----------------------------------------------------------------------------
(* C7: means over an empty record set *)

IsNoData(x) == x.kind \notin {"nan", "inf"} /\ ~(x.kind = "num" /\ x.num = 0)

\* C7 as stated: over zero records the mean stay and the mean satisfaction
\* are each a NoData marker, neither 0 nor nan.
C7_EmptyMeansNoData ==
    (KpisFeitos /\ df_filtrado = <<>>) =>
        (IsNoData(estadia_media) /\ IsNoData(satisfacao_media))

----------------------------------------------------------------------------
(* C8: ties *)

ProvinciasPresentes == {df_filtrado[i].provincia : i \in 1..Len(df_filtrado)}

MesesPresentes == {df_filtrado[i].data.m : i \in 1..Len(df_filtrado)}

TotalDe(p) == ColumnSum(SelectSeq(df_filtrado, LAMBDA r : r.provincia = p))

SomaDoMes(m) == ColumnSum(SelectSeq(df_filtrado, LAMBDA r : r.data.m = m))

LinhasDoMes(m) == Len(SelectSeq(df_filtrado, LAMBDA r : r.data.m = m))

\* The mean of month a is at least / exactly the mean of month b.
MediaMaiorOuIgual(a, b) ==
    SomaDoMes(a) * LinhasDoMes(b) >= SomaDoMes(b) * LinhasDoMes(a)

MediaIgual(a, b) ==
    SomaDoMes(a) * LinhasDoMes(b) = SomaDoMes(b) * LinhasDoMes(a)

MesDoNome(n) == CHOOSE m \in 1..12 : meses[m] = n

\* C8: the top province has the largest total and, among the provinces that
\* share it, the first name in lexical order; the peak month has the largest
\* mean and, among the months that share it, the lowest number; neither
\* depends on which of the tied keys comes first in the rows.
C8_TieBreakSmallestKey ==
    /\ HasInsight("TopDestination") =>
          LET p == InsightOf("TopDestination").texto
          IN  /\ p \in ProvinciasPresentes
              /\ \A q \in ProvinciasPresentes :
                    /\ TotalDe(q) <= TotalDe(p)
                    /\ TotalDe(q) = TotalDe(p) => LexRank(p) <= LexRank(q)
    /\ HasInsight("PeakSeason") =>
          LET m == MesDoNome(InsightOf("PeakSeason").texto)
          IN  /\ m \in MesesPresentes
              /\ \A k \in MesesPresentes :
                    /\ MediaMaiorOuIgual(m, k)
                    /\ MediaIgual(m, k) => m <= k

\* Both ties at once, the winning keys not being the first in the rows: the
\* first row is Luanda's and in December, Benguela and June tie with them.
C8_Witness ==
    /\ pc = "done"
    /\ df_filtrado # <<>>
    /\ df_filtrado[1].provincia = "Luanda"
    /\ df_filtrado[1].data.m = 12
    /\ ProvinciasPresentes = {"Luanda", "Benguela"}
    /\ TotalDe("Luanda") = TotalDe("Benguela")
    /\ TotalDe("Luanda") > 0
    /\ InsightOf("TopDestination").texto = "Benguela"
    /\ MesesPresentes = {6, 12}
    /\ MediaIgual(6, 12)
    /\ InsightOf("PeakSeason").texto = "Jun"

----------------------------------------------------------------------------
(* C9: the period "all" *)

\* C9: with period "all" the period filter returns its input unchanged, and
\* applying "all" to the result of any period, "last 6 months" included,
\* returns that result unchanged.
C9_AllIsIdentity ==
    PeriodoFiltrado =>
        /\ periodo = "Todos os dados" => df_filtrado = df
        /\ PeriodFilter(df_filtrado, "Todos os dados") = df_filtrado

\* "Last 6 months" has narrowed a frame of three or more rows to two.
C9_Witness ==
    /\ pc = "kpis"
    /\ periodo = "Ultimos 6 meses"
    /\ Len(df_filtrado) = 2
    /\ Len(df) > 2
    /\ PeriodFilter(df_filtrado, "Todos os dados") = df_filtrado

----------------------------------------------------------------------------
(* C10: grouped sums *)

\* C10: the by-province totals add up to the ungrouped total of the filtered
\* rows, with one entry for each province that has a row and no other.
C10_GroupedSumsReconstructTotal ==
    GraficosFeitos =>
        /\ SumSeq([i \in 1..Len(df_provincia) |-> df_provincia[i].visitantes])
              = total_visitantes
        /\ {df_provincia[i].key : i \in 1..Len(df_provincia)}
              = ProvinciasPresentes
        /\ Len(df_provincia) = Cardinality(ProvinciasPresentes)

\* Two provinces in three or more rows, one province with several rows.
C10_Witness ==
    /\ pc = "done"
    /\ Len(df_provincia) = 2
    /\ Len(df_filtrado) >= 3
    /\ \A i \in 1..Len(df_provincia) : df_provincia[i].visitantes > 0
    /\ total_visitantes >= 30

----------------------------------------------------------------------------
(* C11: the order of the insights *)

TagRank(t) ==
    IF t = "TopDestination" THEN 1 ELSE IF t = "Trend" THEN 2 ELSE 3

\* C11: at every point of the pass the insights emitted so far are in the
\* order TopDestination, Trend, PeakSeason, each at most once: Trend never
\* precedes TopDestination and PeakSeason never precedes either.
C11_FixedInsightOrder ==
    /\ \A i \in 1..Len(insights) :
          insights[i].tag \in {"TopDestination", "Trend", "PeakSeason"}
    /\ \A i, j \in 1..Len(insights) :
          i < j => TagRank(insights[i].tag) < TagRank(insights[j].tag)

\* A pass that has emitted all three insights.
C11_Witness ==
    /\ pc = "done"
    /\ Len(insights) = 3
    /\ insights[1].tag = "TopDestination"
    /\ insights[2].tag = "Trend"
    /\ insights[3].tag = "PeakSeason"

----------------------------------------------------------------------------
(* C12: the direction and magnitude of the trend *)

\* delta_percent is a positive number or +inf.
DeltaPositivo ==
    \/ delta_visitantes.kind = "inf"
    \/ (delta_visitantes.kind = "num" /\ delta_visitantes.num > 0)

\* v is the absolute value of x.
IsAbsOf(v, x) ==
    /\ v.kind = x.kind
    /\ x.kind = "num" =>
          /\ v.num >= 0
          /\ v.den = x.den
          /\ (v.num = x.num \/ v.num = 0 - x.num)

\* C12: the Trend insight reads growth exactly when delta_percent > 0 and
\* decline otherwise, with magnitude |delta_percent|; a delta_percent of
\* exactly 0 reads decline with magnitude 0.
C12_TrendDirection ==
    HasInsight("Trend") =>
        LET t == InsightOf("Trend")
        IN  /\ t.texto = (IF DeltaPositivo THEN "crescimento"
                          ELSE "decrescimento")
            /\ IsAbsOf(t.valor, delta_visitantes)
            /\ (delta_visitantes.kind = "num" /\ delta_visitantes.num = 0) =>
                  (t.texto = "decrescimento" /\ t.valor.num = 0)

\* A constant series of four non-zero rows: delta_percent is exactly 0 and
\* the trend reads decline with magnitude 0.
C12_Witness ==
    /\ pc = "done"
    /\ Len(df_filtrado) = 4
    /\ \A i \in 1..Len(df_filtrado) : df_filtrado[i].visitantes = 10
    /\ delta_visitantes.kind = "num"
    /\ delta_visitantes.num = 0
    /\ InsightOf("Trend").texto = "decrescimento"
    /\ InsightOf("Trend").valor.num = 0

----------------------------------------------------------------------------
(* C13: the record set reaching the aggregators *)

\* Some row of the store passes the province selection.
SelecaoAlcanca ==
    \/ provincias_selecionadas = {}
    \/ \E i \in 1..Len(store) : store[i].provincia \in provincias_selecionadas

\* Every row of df at df's latest date is in df_filtrado.
UltimaDataSobrevive ==
    \A i \in 1..Len(df) :
        Day(df[i].data) = MaxDay(df) =>
            \E j \in 1..Len(df_filtrado) : df_filtrado[j] = df[i]

\* The top-province or peak-month idxmax was taken over an empty grouping.
IdxMaxSobreVazio == pc = "crashed" /\ error = "ValueError"

\* C13 as stated: for every non-empty store, whatever the period and the
\* province selection, the record set reaching the aggregators is non-empty
\* and no idxmax is taken over an empty grouping.
C13_NeverEmptyForAnySelection ==
    (store # <<>> /\ PeriodoFiltrado) =>
        (df_filtrado # <<>> /\ ~IdxMaxSobreVazio)

\* C13 amended: for every non-empty store, every period and every province
\* selection that is empty or names a province with a record in the store,
\* the record set reaching the aggregators is non-empty: the records at the
\* latest date of the province-filtered set survive the period filter, and
\* no idxmax is taken over an empty grouping.
C13_NonEmptyWhenSelectionReaches ==
    (store # <<>> /\ SelecaoAlcanca /\ PeriodoFiltrado) =>
        /\ df # <<>>
        /\ df_filtrado # <<>>
        /\ UltimaDataSobrevive
        /\ ~IdxMaxSobreVazio

\* A selection of one province whose latest row is older than the store's,
\* narrowed further by "last 6 months", rendered to the end.
C13_Witness ==
    /\ pc = "done"
    /\ periodo = "Ultimos 6 meses"
    /\ provincias_selecionadas = {"Luanda"}
    /\ Len(df) < Len(store)
    /\ MaxDay(df) < MaxDay(store)
    /\ df_filtrado # <<>>
    /\ Len(df_filtrado) < Len(df)

====
